---------------------------- MODULE Spec2Model ----------------------------
(***************************************************************************)
(* Dual-store user synchronisation (UserSyncService): Firebase Auth (the   *)
(* identity store) and Firestore (the document store).  Every store call   *)
(* of an operation is one step of the calling request; a store call may    *)
(* fail, and a failed call changes nothing and throws.                     *)
(*                                                                         *)
(* JavaScript strings are sequences of one-character strings, so that      *)
(* toUpperCase is computed character by character.  JavaScript undefined   *)
(* is the value Undef.                                                     *)
(***************************************************************************)
EXTENDS Integers, Sequences, FiniteSets, TLC

VARIABLES auth, docs, fillers, loc, prev, left, faults

vars == <<auth, docs, fillers, loc, prev, left, faults>>

(***************************************************************************)
(* Bounds of the model.                                                    *)
(***************************************************************************)
\* The calls a caller issues in a row, in the runs that follow a sequence of calls.
MaxOps == 2

\* The store calls that may fail in one run.
MaxFaults == 2

\* listUsers(1000): the one page the auditor and the migrator read.
PageSize == 1000

UIDs == {1, 2}
Procs == {1, 2}

(***************************************************************************)
(* Strings.                                                                *)
(***************************************************************************)
Undef == <<"undefined">>
Null == <<"null">>
EmptyStr == <<>>

LowerLetters ==
  <<"a","b","c","d","e","f","g","h","i","j","k","l","m",
    "n","o","p","q","r","s","t","u","v","w","x","y","z">>
UpperLetters ==
  <<"A","B","C","D","E","F","G","H","I","J","K","L","M",
    "N","O","P","Q","R","S","T","U","V","W","X","Y","Z">>

\* Two characters outside ASCII that case mapping relates to ASCII letters:
\* U+0131 LATIN SMALL LETTER DOTLESS I, whose uppercase is "I", and
\* U+212A KELVIN SIGN, an uppercase character whose lowercase is "k".
DotlessI == "U+0131"
KelvinSign == "U+212A"

UpperChar(c) ==
  IF \E i \in 1..26 : LowerLetters[i] = c
  THEN UpperLetters[CHOOSE i \in 1..26 : LowerLetters[i] = c]
  ELSE IF c = DotlessI THEN "I"
  ELSE c

\* String.prototype.toUpperCase
ToUpperCase(s) == [i \in 1..Len(s) |-> UpperChar(s[i])]

\* s?.toUpperCase()
OptToUpperCase(s) == IF s = Undef THEN Undef ELSE ToUpperCase(s)

\* JavaScript truthiness of a string-or-undefined value
Truthy(v) == v # Undef /\ v # Null /\ v # EmptyStr

\* a || b
OrElse(a, b) == IF Truthy(a) THEN a ELSE b

ADMIN == <<"A","D","M","I","N">>
KITCHEN == <<"K","I","T","C","H","E","N">>
WAITER == <<"W","A","I","T","E","R">>
ACTIVE == <<"a","c","t","i","v","e">>
INACTIVE == <<"i","n","a","c","t","i","v","e">>

ValidRoles == {ADMIN, KITCHEN, WAITER}

NormalizeRoleNoUpper(role) ==
  IF role \in ValidRoles THEN role ELSE Null

\* normalizeRole: the upper-cased input when it is a valid role, else null
NormalizeRole(role) ==
  LET normalized == OptToUpperCase(role)
  IN  IF normalized \in ValidRoles THEN normalized ELSE Null

(***************************************************************************)
(* The values the model draws names, e-mails and role strings from.        *)
(***************************************************************************)
NameA == <<"A">>
NameB == <<"B">>
MailA == <<"a","@","b">>
MailC == <<"c","@","d">>
kitchen == <<"k","i","t","c","h","e","n">>
Admin == <<"A","d","m","i","n">>
chef == <<"c","h","e","f">>

\* Timestamps: T0 is any time before the run, NOW is FieldValue.serverTimestamp()
T0 == <<"t0">>
NOW == <<"now">>

(***************************************************************************)
(* The two stores.  auth[u] is the UserRecord of uid u or NoUser; docs[u]  *)
(* is the users/u document or NoDoc.  fillers counts further principals,   *)
(* each with a record that agrees with it, that listUsers returns ahead    *)
(* of the modelled uids.                                                   *)
(***************************************************************************)
NoUser == [absent |-> TRUE]
NoDoc == [absent |-> TRUE]

UserRecord(email, displayName, role, disabled) ==
  [email |-> email, displayName |-> displayName, role |-> role,
   disabled |-> disabled]

UserDoc(uid, email, name, role, status, createdAt, updatedAt) ==
  [uid |-> uid, email |-> email, name |-> name, role |-> role,
   status |-> status, createdAt |-> createdAt, updatedAt |-> updatedAt]

HasUser(a, u) == a[u] # NoUser
HasDoc(d, u) == d[u] # NoDoc

StatusOf(disabled) == IF disabled THEN INACTIVE ELSE ACTIVE


(***************************************************************************)
(* The state of one request: loc[p] holds the running (or last finished)   *)
(* call of caller p, prev[p] a summary of the call before it, and left the *)
(* number of calls still to be issued.                                     *)
(*   calls : the store calls made so far, in order; ok tells whether the   *)
(*           store served the call (a getUser that finds no user is        *)
(*           served), rb marks a call made from a rollback (catch) block   *)
(*   err   : the error the call is about to throw ("none" when none)       *)
(*   pre   : the two stores as they were when the call began               *)
(***************************************************************************)
IdleLoc ==
  [pc |-> "idle", op |-> "none", uid |-> 0, email |-> Undef, name |-> Undef,
   role |-> Undef, norm |-> Null, prevName |-> Undef, prevRole |-> Undef,
   rec |-> NoUser, exists |-> FALSE, err |-> "none", ok |-> FALSE,
   value |-> Undef, calls |-> <<>>, pre |-> <<>>, page |-> <<>>,
   coll |-> <<>>, idx |-> 0, migrated |-> 0, errors |-> <<>>]

Merge(r, s) == [k \in DOMAIN r |-> IF k \in DOMAIN s THEN s[k] ELSE r[k]]

Call(api, u, ok, rb) == [api |-> api, uid |-> u, ok |-> ok, rb |-> rb]

\* loc[p] after one more store call, with the fields of s changed
AfterCall(p, c, s) == Merge(loc[p], [calls |-> Append(loc[p].calls, c)] @@ s)

Snapshot == [auth |-> auth, docs |-> docs]

\* A caller that waits until no other caller has a call running.
CanBeginAlone(p) ==
  /\ loc[p].pc \in {"idle", "done"} /\ left > 0
  /\ \A q \in Procs \ {p} : loc[q].pc \in {"idle", "done"}

\* A request sequence issues its next call when the one before has returned.
CanBegin(p) == loc[p].pc \in {"idle", "done"} /\ left > 0

\* What is kept of the call before the current one.
Summary(l) ==
  [op |-> l.op, uid |-> l.uid, pc |-> l.pc, ok |-> l.ok, pre |-> l.pre,
   value |-> l.value]

Begin(p, s) ==
  /\ CanBegin(p)
  /\ loc' = [loc EXCEPT ![p] = Merge(IdleLoc, [pre |-> Snapshot] @@ s)]
  /\ prev' = [prev EXCEPT ![p] = Summary(loc[p])]
  /\ left' = left - 1

\* A store call fails only while the run has failures left; faults counts them.
LastCallFailed(l) == l.calls # <<>> /\ ~l.calls[Len(l.calls)].ok

FaultAccounting(p) ==
  /\ LastCallFailed(loc'[p]) => faults > 0
  /\ faults' = IF LastCallFailed(loc'[p]) THEN faults - 1 ELSE faults

\* The call returns value v.
Return(l, v) == Merge(l, [pc |-> "done", ok |-> TRUE, value |-> v])

\* The call throws error e.
Throw(l, e) == Merge(l, [pc |-> "done", ok |-> FALSE, err |-> e])

(***************************************************************************)
(* createUser(data)                                                        *)
(***************************************************************************)
\* A uid Firebase Auth may assign: one never used in either store.
FreshUids == {u \in UIDs : ~HasUser(auth, u) /\ ~HasDoc(docs, u)}

\* No check of the role before the stores are called.
CreateUserValidateLate(l) == Merge(l, [pc |-> "c_createUser"])

\* lines 38-41: the role is validated before any store is touched
CreateUserValidate(l) ==
  IF l.norm = Null THEN Throw(l, "Rol invalido")
  ELSE Merge(l, [pc |-> "c_createUser"])

CreateUserBegin(p, email, name, role) ==
  /\ CanBegin(p)
  /\ loc' = [loc EXCEPT ![p] =
       CreateUserValidate(Merge(IdleLoc,
         [op |-> "createUser", email |-> email, name |-> name, role |-> role,
          norm |-> NormalizeRole(role), pre |-> Snapshot]))]
  /\ prev' = [prev EXCEPT ![p] = Summary(loc[p])]
  /\ left' = left - 1
  /\ UNCHANGED <<auth, docs, fillers, faults>>

\* lines 47-53: admin.auth().createUser; on failure userRecord stays null
CreateUserAuth(p) ==
  /\ loc[p].pc = "c_createUser"
  /\ \/ \E u \in FreshUids :
          /\ auth' = [auth EXCEPT ![u] =
               UserRecord(loc[p].email, loc[p].name, Undef, FALSE)]
          /\ loc' = [loc EXCEPT ![p] =
               AfterCall(p, Call("auth.createUser", u, TRUE, FALSE),
                 [uid |-> u, pc |-> "c_setClaims"])]
     \/ /\ auth' = auth
        /\ loc' = [loc EXCEPT ![p] =
             Throw(AfterCall(p, Call("auth.createUser", 0, FALSE, FALSE), <<>>),
                   "auth.createUser")]
  /\ UNCHANGED <<docs, fillers, prev, left>>
  /\ FaultAccounting(p)

\* line 56: setCustomUserClaims(uid, {role: normalizedRole})
CreateUserClaims(p) ==
  /\ loc[p].pc = "c_setClaims"
  /\ LET u == loc[p].uid IN
     \/ /\ HasUser(auth, u)
        /\ auth' = [auth EXCEPT ![u].role = loc[p].norm]
        /\ loc' = [loc EXCEPT ![p] =
             AfterCall(p, Call("auth.setCustomUserClaims", u, TRUE, FALSE),
               [pc |-> "c_docSet"])]
     \/ /\ auth' = auth
        /\ loc' = [loc EXCEPT ![p] =
             AfterCall(p, Call("auth.setCustomUserClaims", u, FALSE, FALSE),
               [pc |-> "c_rollback", err |-> "auth.setCustomUserClaims"])]
  /\ UNCHANGED <<docs, fillers, prev, left>>
  /\ FaultAccounting(p)

\* The role stored as it was given.
CreateUserDataRawRole(l) ==
  UserDoc(l.uid, l.email, l.name, l.role, ACTIVE, NOW, NOW)

\* lines 59-68: the IUser returned to the caller
CreateUserData(l) ==
  UserDoc(l.uid, l.email, l.name, l.norm, ACTIVE, NOW, NOW)

\* lines 70-76: the users/uid document is written, then userData is returned
CreateUserDoc(p) ==
  /\ loc[p].pc = "c_docSet"
  /\ LET u == loc[p].uid IN
     \/ /\ docs' = [docs EXCEPT ![u] = CreateUserData(loc[p])]
        /\ loc' = [loc EXCEPT ![p] =
             Return(AfterCall(p, Call("doc.set", u, TRUE, FALSE), <<>>),
                    CreateUserData(loc[p]))]
     \/ /\ docs' = docs
        /\ loc' = [loc EXCEPT ![p] =
             AfterCall(p, Call("doc.set", u, FALSE, FALSE),
               [pc |-> "c_rollback", err |-> "doc.set"])]
  /\ UNCHANGED <<auth, fillers, prev, left>>
  /\ FaultAccounting(p)

\* A catch block that lets the error of a failed rollback escape.
RethrowRollbackError(l, rollbackOk, rollbackError) ==
  IF rollbackOk THEN Throw(l, l.err) ELSE Throw(l, rollbackError)

\* lines 78-89 (and 157-171, 213-222, 264-273): the catch block logs the
\* outcome of the rollback and rethrows the error it caught
Rethrow(l, rollbackOk, rollbackError) == Throw(l, l.err)

\* A rollback that logs the deletion without making it.
CreateUserRollbackSkipped(p) ==
  /\ loc[p].pc = "c_rollback"
  /\ loc' = [loc EXCEPT ![p] =
       Rethrow(AfterCall(p, Call("auth.deleteUser", loc[p].uid, TRUE, TRUE), <<>>),
               TRUE, "none")]
  /\ UNCHANGED <<auth, docs, fillers, prev, left>>
  /\ FaultAccounting(p)

\* lines 80-88: deleteUser(userRecord.uid), whose own failure is only logged
CreateUserRollback(p) ==
  /\ loc[p].pc = "c_rollback"
  /\ LET u == loc[p].uid IN
     \/ /\ HasUser(auth, u)
        /\ auth' = [auth EXCEPT ![u] = NoUser]
        /\ loc' = [loc EXCEPT ![p] =
             Rethrow(AfterCall(p, Call("auth.deleteUser", u, TRUE, TRUE), <<>>),
                     TRUE, "none")]
     \/ /\ auth' = auth
        /\ loc' = [loc EXCEPT ![p] =
             Rethrow(AfterCall(p, Call("auth.deleteUser", u, FALSE, TRUE), <<>>),
                     FALSE, "rollback: auth.deleteUser")]
  /\ UNCHANGED <<docs, fillers, prev, left>>
  /\ FaultAccounting(p)

CreateUserStep(p) ==
  \/ CreateUserAuth(p)
  \/ CreateUserClaims(p)
  \/ CreateUserDoc(p)
  \/ CreateUserRollback(p)

(***************************************************************************)
(* updateUser(uid, data)                                                   *)
(***************************************************************************)
UpdateUserBegin(p, uid, name, role) ==
  /\ Begin(p, [op |-> "updateUser", uid |-> uid, name |-> name, role |-> role,
               pc |-> "u_getUser"])
  /\ UNCHANGED <<auth, docs, fillers, faults>>

\* lines 124-129: which identity-store write comes next
UpdateAfterName(l) == IF Truthy(l.norm) THEN "u_setClaims" ELSE "u_docGet"
UpdateFirstWrite(l) == IF Truthy(l.name) THEN "u_updateName" ELSE UpdateAfterName(l)

\* lines 110-116: a supplied role must normalize
UpdateUserValidate(l) ==
  IF Truthy(l.role) /\ NormalizeRole(l.role) = Null
  THEN Throw(l, "Rol invalido")
  ELSE LET m == Merge(l, [norm |-> IF Truthy(l.role) THEN NormalizeRole(l.role) ELSE Null])
       IN  Merge(m, [pc |-> UpdateFirstWrite(m)])

\* lines 104-120: getUser, the role check, and the values kept for rollback
UpdateUserGet(p) ==
  /\ loc[p].pc = "u_getUser"
  /\ LET u == loc[p].uid IN
     \/ /\ HasUser(auth, u)
        /\ loc' = [loc EXCEPT ![p] =
             UpdateUserValidate(
               AfterCall(p, Call("auth.getUser", u, TRUE, FALSE),
                 [prevName |-> auth[u].displayName, prevRole |-> auth[u].role]))]
     \/ /\ ~HasUser(auth, u)
        /\ loc' = [loc EXCEPT ![p] =
             Throw(AfterCall(p, Call("auth.getUser", u, TRUE, FALSE), <<>>),
                   "no encontrado")]
     \/ /\ loc' = [loc EXCEPT ![p] =
             Throw(AfterCall(p, Call("auth.getUser", u, FALSE, FALSE), <<>>),
                   "auth.getUser")]
  /\ UNCHANGED <<auth, docs, fillers, prev, left>>
  /\ FaultAccounting(p)

\* lines 157-171: the catch block; each restore is made only for a field that
\* was supplied and whose previous value is not undefined
UpdateRollbackClaims(l) ==
  IF Truthy(l.norm) /\ l.prevRole # Undef
  THEN Merge(l, [pc |-> "u_rbClaims"]) ELSE Throw(l, l.err)

UpdateRollback(l) ==
  IF Truthy(l.name) /\ l.prevName # Undef
  THEN Merge(l, [pc |-> "u_rbName"]) ELSE UpdateRollbackClaims(l)

\* line 125: updateUser(uid, {displayName: name})
UpdateUserName(p) ==
  /\ loc[p].pc = "u_updateName"
  /\ LET u == loc[p].uid IN
     \/ /\ HasUser(auth, u)
        /\ auth' = [auth EXCEPT ![u].displayName = loc[p].name]
        /\ loc' = [loc EXCEPT ![p] =
             AfterCall(p, Call("auth.updateUser", u, TRUE, FALSE),
               [pc |-> UpdateAfterName(loc[p])])]
     \/ /\ auth' = auth
        /\ loc' = [loc EXCEPT ![p] =
             UpdateRollback(AfterCall(p, Call("auth.updateUser", u, FALSE, FALSE),
               [err |-> "auth.updateUser"]))]
  /\ UNCHANGED <<docs, fillers, prev, left>>
  /\ FaultAccounting(p)

\* line 128: setCustomUserClaims(uid, {role: normalizedRole})
UpdateUserClaims(p) ==
  /\ loc[p].pc = "u_setClaims"
  /\ LET u == loc[p].uid IN
     \/ /\ HasUser(auth, u)
        /\ auth' = [auth EXCEPT ![u].role = loc[p].norm]
        /\ loc' = [loc EXCEPT ![p] =
             AfterCall(p, Call("auth.setCustomUserClaims", u, TRUE, FALSE),
               [pc |-> "u_docGet"])]
     \/ /\ auth' = auth
        /\ loc' = [loc EXCEPT ![p] =
             UpdateRollback(AfterCall(p,
               Call("auth.setCustomUserClaims", u, FALSE, FALSE),
               [err |-> "auth.setCustomUserClaims"]))]
  /\ UNCHANGED <<docs, fillers, prev, left>>
  /\ FaultAccounting(p)

\* lines 138-141: userDocRef.get()
UpdateUserDocGet(p) ==
  /\ loc[p].pc = "u_docGet"
  /\ LET u == loc[p].uid IN
     \/ loc' = [loc EXCEPT ![p] =
          AfterCall(p, Call("doc.get", u, TRUE, FALSE),
            [exists |-> HasDoc(docs, u),
             pc |-> IF HasDoc(docs, u) THEN "u_docUpdate" ELSE "u_getUser2"])]
     \/ loc' = [loc EXCEPT ![p] =
          UpdateRollback(AfterCall(p, Call("doc.get", u, FALSE, FALSE),
            [err |-> "doc.get"]))]
  /\ UNCHANGED <<auth, docs, fillers, prev, left>>
  /\ FaultAccounting(p)

\* An update that writes both fields whether or not they were supplied.
FirestoreUpdateBothFields(l, d) ==
  [d EXCEPT !.updatedAt = NOW, !.name = l.name, !.role = l.norm]

\* lines 132-136: the fields update() writes
FirestoreUpdate(l, d) ==
  LET d1 == [d EXCEPT !.updatedAt = NOW]
      d2 == IF Truthy(l.name) THEN [d1 EXCEPT !.name = l.name] ELSE d1
  IN  IF Truthy(l.norm) THEN [d2 EXCEPT !.role = l.norm] ELSE d2

\* line 142: userDocRef.update(firestoreUpdate), which needs the document
UpdateUserDocUpdate(p) ==
  /\ loc[p].pc = "u_docUpdate"
  /\ LET u == loc[p].uid IN
     \/ /\ HasDoc(docs, u)
        /\ docs' = [docs EXCEPT ![u] = FirestoreUpdate(loc[p], @)]
        /\ loc' = [loc EXCEPT ![p] =
             Return(AfterCall(p, Call("doc.update", u, TRUE, FALSE), <<>>), Undef)]
     \/ /\ docs' = docs
        /\ loc' = [loc EXCEPT ![p] =
             UpdateRollback(AfterCall(p, Call("doc.update", u, FALSE, FALSE),
               [err |-> "doc.update"]))]
  /\ UNCHANGED <<auth, fillers, prev, left>>
  /\ FaultAccounting(p)

\* line 145: the second getUser of the auto-sync branch
UpdateUserGet2(p) ==
  /\ loc[p].pc = "u_getUser2"
  /\ LET u == loc[p].uid IN
     \/ /\ HasUser(auth, u)
        /\ loc' = [loc EXCEPT ![p] =
             AfterCall(p, Call("auth.getUser", u, TRUE, FALSE),
               [rec |-> auth[u], pc |-> "u_docSet"])]
     \/ loc' = [loc EXCEPT ![p] =
          UpdateRollback(AfterCall(p, Call("auth.getUser", u, FALSE, FALSE),
            [err |-> "auth.getUser"]))]
  /\ UNCHANGED <<auth, docs, fillers, prev, left>>
  /\ FaultAccounting(p)

\* The previous role preferred to the new one, and the status not derived.
UpdateAutoSyncDocStale(l) ==
  UserDoc(l.uid, OrElse(l.rec.email, EmptyStr),
          OrElse(l.name, OrElse(l.rec.displayName, EmptyStr)),
          OrElse(l.prevRole, OrElse(l.norm, KITCHEN)),
          ACTIVE, NOW, NOW)

\* lines 146-154: the document the auto-sync branch creates
UpdateAutoSyncDoc(l) ==
  UserDoc(l.uid, OrElse(l.rec.email, EmptyStr),
          OrElse(l.name, OrElse(l.rec.displayName, EmptyStr)),
          OrElse(l.norm, OrElse(l.prevRole, KITCHEN)),
          StatusOf(l.rec.disabled), NOW, NOW)

UpdateUserDocSet(p) ==
  /\ loc[p].pc = "u_docSet"
  /\ LET u == loc[p].uid IN
     \/ /\ docs' = [docs EXCEPT ![u] = UpdateAutoSyncDoc(loc[p])]
        /\ loc' = [loc EXCEPT ![p] =
             Return(AfterCall(p, Call("doc.set", u, TRUE, FALSE), <<>>), Undef)]
     \/ /\ docs' = docs
        /\ loc' = [loc EXCEPT ![p] =
             UpdateRollback(AfterCall(p, Call("doc.set", u, FALSE, FALSE),
               [err |-> "doc.set"]))]
  /\ UNCHANGED <<auth, fillers, prev, left>>
  /\ FaultAccounting(p)

\* lines 160-162: updateUser(uid, {displayName: previousName}); when it fails
\* the claims are not restored either
UpdateUserRollbackName(p) ==
  /\ loc[p].pc = "u_rbName"
  /\ LET u == loc[p].uid IN
     \/ /\ HasUser(auth, u)
        /\ auth' = [auth EXCEPT ![u].displayName = loc[p].prevName]
        /\ loc' = [loc EXCEPT ![p] =
             UpdateRollbackClaims(
               AfterCall(p, Call("auth.updateUser", u, TRUE, TRUE), <<>>))]
     \/ /\ auth' = auth
        /\ loc' = [loc EXCEPT ![p] =
             Rethrow(AfterCall(p, Call("auth.updateUser", u, FALSE, TRUE), <<>>),
                     FALSE, "rollback: auth.updateUser")]
  /\ UNCHANGED <<docs, fillers, prev, left>>
  /\ FaultAccounting(p)

\* lines 163-165: setCustomUserClaims(uid, {role: previousRole})
UpdateUserRollbackClaims(p) ==
  /\ loc[p].pc = "u_rbClaims"
  /\ LET u == loc[p].uid IN
     \/ /\ HasUser(auth, u)
        /\ auth' = [auth EXCEPT ![u].role = loc[p].prevRole]
        /\ loc' = [loc EXCEPT ![p] =
             Rethrow(AfterCall(p,
               Call("auth.setCustomUserClaims", u, TRUE, TRUE), <<>>),
               TRUE, "none")]
     \/ /\ auth' = auth
        /\ loc' = [loc EXCEPT ![p] =
             Rethrow(AfterCall(p,
               Call("auth.setCustomUserClaims", u, FALSE, TRUE), <<>>),
               FALSE, "rollback: auth.setCustomUserClaims")]
  /\ UNCHANGED <<docs, fillers, prev, left>>
  /\ FaultAccounting(p)

UpdateUserStep(p) ==
  \/ UpdateUserGet(p)
  \/ UpdateUserName(p)
  \/ UpdateUserClaims(p)
  \/ UpdateUserDocGet(p)
  \/ UpdateUserDocUpdate(p)
  \/ UpdateUserGet2(p)
  \/ UpdateUserDocSet(p)
  \/ UpdateUserRollbackName(p)
  \/ UpdateUserRollbackClaims(p)

(***************************************************************************)
(* disableUser(uid) and enableUser(uid): the same code but for the flag    *)
(* written and the status stored.                                          *)
(***************************************************************************)
ToggleOps == {"disableUser", "enableUser"}

\* lines 189 and 240: the disabled flag the operation writes
TargetDisabledSwapped(op) == op = "enableUser"
TargetDisabled(op) == op = "disableUser"

ToggleBegin(p, op, uid) ==
  /\ op \in ToggleOps
  /\ Begin(p, [op |-> op, uid |-> uid, pc |-> "t_getUser"])
  /\ UNCHANGED <<auth, docs, fillers, faults>>

\* lines 182-185 and 233-236: getUser(uid)
ToggleGet(p) ==
  /\ loc[p].pc = "t_getUser"
  /\ LET u == loc[p].uid IN
     \/ /\ HasUser(auth, u)
        /\ loc' = [loc EXCEPT ![p] =
             AfterCall(p, Call("auth.getUser", u, TRUE, FALSE),
               [rec |-> auth[u], pc |-> "t_updateUser"])]
     \/ /\ ~HasUser(auth, u)
        /\ loc' = [loc EXCEPT ![p] =
             Throw(AfterCall(p, Call("auth.getUser", u, TRUE, FALSE), <<>>),
                   "no encontrado")]
     \/ /\ loc' = [loc EXCEPT ![p] =
             Throw(AfterCall(p, Call("auth.getUser", u, FALSE, FALSE), <<>>),
                   "auth.getUser")]
  /\ UNCHANGED <<auth, docs, fillers, prev, left>>
  /\ FaultAccounting(p)

\* lines 189 and 240: updateUser(uid, {disabled})
ToggleAuth(p) ==
  /\ loc[p].pc = "t_updateUser"
  /\ LET u == loc[p].uid IN
     \/ /\ HasUser(auth, u)
        /\ auth' = [auth EXCEPT ![u].disabled = TargetDisabled(loc[p].op)]
        /\ loc' = [loc EXCEPT ![p] =
             AfterCall(p, Call("auth.updateUser", u, TRUE, FALSE),
               [pc |-> "t_docGet"])]
     \/ /\ auth' = auth
        /\ loc' = [loc EXCEPT ![p] =
             AfterCall(p, Call("auth.updateUser", u, FALSE, FALSE),
               [pc |-> "t_rollback", err |-> "auth.updateUser"])]
  /\ UNCHANGED <<docs, fillers, prev, left>>
  /\ FaultAccounting(p)

\* lines 192-195 and 243-246: userDocRef.get()
ToggleDocGet(p) ==
  /\ loc[p].pc = "t_docGet"
  /\ LET u == loc[p].uid IN
     \/ loc' = [loc EXCEPT ![p] =
          AfterCall(p, Call("doc.get", u, TRUE, FALSE),
            [exists |-> HasDoc(docs, u),
             pc |-> IF HasDoc(docs, u) THEN "t_docUpdate" ELSE "t_docSet"])]
     \/ loc' = [loc EXCEPT ![p] =
          AfterCall(p, Call("doc.get", u, FALSE, FALSE),
            [pc |-> "t_rollback", err |-> "doc.get"])]
  /\ UNCHANGED <<auth, docs, fillers, prev, left>>
  /\ FaultAccounting(p)

\* An update that also rewrites the role from the user record read.
ToggleUpdateFieldsResync(l, d) ==
  [d EXCEPT !.status = StatusOf(TargetDisabled(l.op)), !.updatedAt = NOW,
            !.role = OrElse(l.rec.role, KITCHEN)]

\* lines 196-199 and 247-250: the fields update() writes
ToggleUpdateFields(l, d) ==
  [d EXCEPT !.status = StatusOf(TargetDisabled(l.op)), !.updatedAt = NOW]

\* lines 196-199 and 247-250: update({status, updatedAt})
ToggleDocUpdate(p) ==
  /\ loc[p].pc = "t_docUpdate"
  /\ LET u == loc[p].uid IN
     \/ /\ HasDoc(docs, u)
        /\ docs' = [docs EXCEPT ![u] = ToggleUpdateFields(loc[p], @)]
        /\ loc' = [loc EXCEPT ![p] =
             Return(AfterCall(p, Call("doc.update", u, TRUE, FALSE), <<>>), Undef)]
     \/ /\ docs' = docs
        /\ loc' = [loc EXCEPT ![p] =
             AfterCall(p, Call("doc.update", u, FALSE, FALSE),
               [pc |-> "t_rollback", err |-> "doc.update"])]
  /\ UNCHANGED <<auth, fillers, prev, left>>
  /\ FaultAccounting(p)

\* The status taken from the user record read before the flag was written.
ToggleAutoSyncDocStale(l) ==
  UserDoc(l.uid, OrElse(l.rec.email, EmptyStr),
          OrElse(l.rec.displayName, EmptyStr),
          OrElse(l.rec.role, KITCHEN),
          StatusOf(l.rec.disabled), NOW, NOW)

\* lines 202-210 and 253-261: the document the auto-sync branch creates, from
\* the user record read when the call began
ToggleAutoSyncDoc(l) ==
  UserDoc(l.uid, OrElse(l.rec.email, EmptyStr),
          OrElse(l.rec.displayName, EmptyStr),
          OrElse(l.rec.role, KITCHEN),
          StatusOf(TargetDisabled(l.op)), NOW, NOW)

ToggleDocSet(p) ==
  /\ loc[p].pc = "t_docSet"
  /\ LET u == loc[p].uid IN
     \/ /\ docs' = [docs EXCEPT ![u] = ToggleAutoSyncDoc(loc[p])]
        /\ loc' = [loc EXCEPT ![p] =
             Return(AfterCall(p, Call("doc.set", u, TRUE, FALSE), <<>>), Undef)]
     \/ /\ docs' = docs
        /\ loc' = [loc EXCEPT ![p] =
             AfterCall(p, Call("doc.set", u, FALSE, FALSE),
               [pc |-> "t_rollback", err |-> "doc.set"])]
  /\ UNCHANGED <<auth, fillers, prev, left>>
  /\ FaultAccounting(p)

\* A rollback that deletes the user instead of restoring the flag.
ToggleRollbackDeletes(p) ==
  /\ loc[p].pc = "t_rollback"
  /\ auth' = [auth EXCEPT ![loc[p].uid] = NoUser]
  /\ loc' = [loc EXCEPT ![p] =
       Rethrow(AfterCall(p, Call("auth.deleteUser", loc[p].uid, TRUE, TRUE), <<>>),
               TRUE, "none")]
  /\ UNCHANGED <<docs, fillers, prev, left>>
  /\ FaultAccounting(p)

\* A rollback that resets the flag of every user.
ToggleRollbackEveryone(p) ==
  /\ loc[p].pc = "t_rollback"
  /\ auth' = [v \in UIDs |->
               IF HasUser(auth, v)
               THEN [auth[v] EXCEPT !.disabled = ~TargetDisabled(loc[p].op)]
               ELSE auth[v]]
  /\ loc' = [loc EXCEPT ![p] =
       Rethrow(AfterCall(p, Call("auth.updateUser", loc[p].uid, TRUE, TRUE), <<>>),
               TRUE, "none")]
  /\ UNCHANGED <<docs, fillers, prev, left>>
  /\ FaultAccounting(p)

\* lines 213-222 and 264-273: updateUser(uid, {disabled: the opposite flag})
ToggleRollback(p) ==
  /\ loc[p].pc = "t_rollback"
  /\ LET u == loc[p].uid IN
     \/ /\ HasUser(auth, u)
        /\ auth' = [auth EXCEPT ![u].disabled = ~TargetDisabled(loc[p].op)]
        /\ loc' = [loc EXCEPT ![p] =
             Rethrow(AfterCall(p, Call("auth.updateUser", u, TRUE, TRUE), <<>>),
                     TRUE, "none")]
     \/ /\ auth' = auth
        /\ loc' = [loc EXCEPT ![p] =
             Rethrow(AfterCall(p, Call("auth.updateUser", u, FALSE, TRUE), <<>>),
                     FALSE, "rollback: auth.updateUser")]
  /\ UNCHANGED <<docs, fillers, prev, left>>
  /\ FaultAccounting(p)

ToggleStep(p) ==
  \/ ToggleGet(p)
  \/ ToggleAuth(p)
  \/ ToggleDocGet(p)
  \/ ToggleDocUpdate(p)
  \/ ToggleDocSet(p)
  \/ ToggleRollback(p)

(***************************************************************************)
(* listUsers(1000) and collection('users').get().  The stores hold, next   *)
(* to the uids of UIDs, fillers users that are in sync (a user record and  *)
(* a matching document each) and that listUsers returns ahead of the uids  *)
(* of UIDs; listUsers(1000) is called once, with no page token, so it      *)
(* returns the first PageSize users only.                                  *)
(***************************************************************************)
Min(a, b) == IF a < b THEN a ELSE b

\* The uids of S in ascending order.
SortedUids(S) ==
  CHOOSE q \in [1..Cardinality(S) -> S] :
    \A i, j \in 1..Cardinality(S) : i < j => q[i] < q[j]

\* The fillers users one page holds.
ListedAhead(ahead) == Min(ahead, PageSize)

\* lines 298, 396: authUsers.users, for the uids of UIDs
ListUsers(a, ahead) ==
  LET present == SortedUids({u \in UIDs : HasUser(a, u)})
      n == Min(Len(present), PageSize - ListedAhead(ahead))
  IN  [i \in 1..n |-> [uid |-> present[i], rec |-> a[present[i]]]]

\* line 304: firestoreSnapshot.docs, for the uids of UIDs
GetDocs(d) ==
  LET present == SortedUids({u \in UIDs : HasDoc(d, u)})
  IN  [i \in 1..Len(present) |-> [uid |-> present[i], data |-> d[present[i]]]]

\* Map.has(uid), for a map built from list
MapHas(list, u) == \E i \in 1..Len(list) : list[i].uid = u

\* Map.get(uid)
MapGet(list, u) == list[CHOOSE i \in 1..Len(list) : list[i].uid = u]

(***************************************************************************)
(* auditSync()                                                             *)
(***************************************************************************)
\* lines 312-320: the loop over authUsersMap, from entry i on
RECURSIVE MissingInFirestoreFrom(_, _, _)
MissingInFirestoreFrom(page, coll, i) ==
  IF i > Len(page) THEN <<>>
  ELSE (IF ~MapHas(coll, page[i].uid)
        THEN << [uid |-> page[i].uid, email |-> page[i].rec.email,
                 name |-> page[i].rec.displayName] >>
        ELSE <<>>)
       \o MissingInFirestoreFrom(page, coll, i + 1)

\* lines 323-331: the loop over firestoreUsersMap, from entry i on
RECURSIVE MissingInAuthFrom(_, _, _)
MissingInAuthFrom(page, coll, i) ==
  IF i > Len(coll) THEN <<>>
  ELSE (IF ~MapHas(page, coll[i].uid)
        THEN << [uid |-> coll[i].uid, email |-> coll[i].data.email,
                 name |-> coll[i].data.name] >>
        ELSE <<>>)
       \o MissingInAuthFrom(page, coll, i + 1)

\* An audit that tells users without a document only.
AuditMissingOneSided(page, coll) ==
  [missingInFirestore |-> MissingInFirestoreFrom(page, coll, 1),
   missingInAuth |-> <<>>]

\* An audit that takes every document for one without a user.
AuditMissingEveryDocument(page, coll) ==
  [missingInFirestore |-> MissingInFirestoreFrom(page, coll, 1),
   missingInAuth |-> MissingInAuthFrom(<<>>, coll, 1)]

\* lines 312-331
AuditMissing(page, coll) ==
  [missingInFirestore |-> MissingInFirestoreFrom(page, coll, 1),
   missingInAuth |-> MissingInAuthFrom(page, coll, 1)]

Inconsistency(u, field, authValue, firestoreValue) ==
  [uid |-> u, field |-> field, authValue |-> authValue,
   firestoreValue |-> firestoreValue]

\* The three comparisons with the roles compared as they are stored.
FieldMismatchesExactRole(u, rec, doc) ==
  (IF rec.displayName # doc.name
   THEN << Inconsistency(u, "name", rec.displayName, doc.name) >>
   ELSE <<>>)
  \o (IF rec.role # doc.role
      THEN << Inconsistency(u, "role", rec.role, doc.role) >>
      ELSE <<>>)
  \o (IF rec.disabled # (doc.status = INACTIVE)
      THEN << Inconsistency(u, "status", StatusOf(rec.disabled), doc.status) >>
      ELSE <<>>)

\* The three comparisons reporting the roles as they were compared.
FieldMismatchesCompared(u, rec, doc) ==
  (IF rec.displayName # doc.name
   THEN << Inconsistency(u, "name", rec.displayName, doc.name) >>
   ELSE <<>>)
  \o (IF OptToUpperCase(rec.role) # OptToUpperCase(doc.role)
      THEN << Inconsistency(u, "role", OptToUpperCase(rec.role),
                            OptToUpperCase(doc.role)) >>
      ELSE <<>>)
  \o (IF rec.disabled # (doc.status = INACTIVE)
      THEN << Inconsistency(u, "status", StatusOf(rec.disabled), doc.status) >>
      ELSE <<>>)

\* lines 338-369: the three comparisons for one uid held by both maps
FieldMismatches(u, rec, doc) ==
  (IF rec.displayName # doc.name
   THEN << Inconsistency(u, "name", rec.displayName, doc.name) >>
   ELSE <<>>)
  \o (IF OptToUpperCase(rec.role) # OptToUpperCase(doc.role)
      THEN << Inconsistency(u, "role", rec.role, doc.role) >>
      ELSE <<>>)
  \o (IF rec.disabled # (doc.status = INACTIVE)
      THEN << Inconsistency(u, "status", StatusOf(rec.disabled), doc.status) >>
      ELSE <<>>)

\* lines 334-371: the loop over authUsersMap, from entry i on
RECURSIVE InconsistenciesFrom(_, _, _)
InconsistenciesFrom(page, coll, i) ==
  IF i > Len(page) THEN <<>>
  ELSE (IF MapHas(coll, page[i].uid)
        THEN FieldMismatches(page[i].uid, page[i].rec,
                             MapGet(coll, page[i].uid).data)
        ELSE <<>>)
       \o InconsistenciesFrom(page, coll, i + 1)

\* A summary whose flag looks at the two lists of missing uids only.
AuditSummaryMissingOnly(totalInAuth, totalInFirestore, missing, inc) ==
  [totalInAuth |-> totalInAuth, totalInFirestore |-> totalInFirestore,
   missingInFirestoreCount |-> Len(missing.missingInFirestore),
   missingInAuthCount |-> Len(missing.missingInAuth),
   inconsistenciesCount |-> Len(inc),
   isConsistent |-> /\ Len(missing.missingInFirestore) = 0
                    /\ Len(missing.missingInAuth) = 0]

\* lines 301, 309, 374-380
AuditSummary(totalInAuth, totalInFirestore, missing, inc) ==
  [totalInAuth |-> totalInAuth, totalInFirestore |-> totalInFirestore,
   missingInFirestoreCount |-> Len(missing.missingInFirestore),
   missingInAuthCount |-> Len(missing.missingInAuth),
   inconsistenciesCount |-> Len(inc),
   isConsistent |-> /\ Len(missing.missingInFirestore) = 0
                    /\ Len(missing.missingInAuth) = 0
                    /\ Len(inc) = 0]

\* lines 283-382: the report, from the page and the collection read; ahead
\* users and their documents are in both maps and in sync
AuditResult(page, coll, ahead) ==
  LET missing == AuditMissing(page, coll)
      inc == InconsistenciesFrom(page, coll, 1)
  IN  [missingInFirestore |-> missing.missingInFirestore,
       missingInAuth |-> missing.missingInAuth,
       inconsistencies |-> inc,
       summary |-> AuditSummary(ListedAhead(ahead) + Len(page),
                                ahead + Len(coll), missing, inc)]

AuditBegin(p) ==
  /\ Begin(p, [op |-> "auditSync", pc |-> "a_list"])
  /\ UNCHANGED <<auth, docs, fillers, faults>>

\* line 298: listUsers(1000); auditSync has no catch, a rejection is its own
AuditList(p) ==
  /\ loc[p].pc = "a_list"
  /\ \/ loc' = [loc EXCEPT ![p] =
          AfterCall(p, Call("auth.listUsers", 0, TRUE, FALSE),
            [page |-> ListUsers(auth, fillers), pc |-> "a_docs"])]
     \/ loc' = [loc EXCEPT ![p] =
          Throw(AfterCall(p, Call("auth.listUsers", 0, FALSE, FALSE), <<>>),
                "auth.listUsers")]
  /\ UNCHANGED <<auth, docs, fillers, prev, left>>
  /\ FaultAccounting(p)

\* An audit that keeps the list of the audit before it and adds to it.
AuditDocsAccumulating(p) ==
  /\ loc[p].pc = "a_docs"
  /\ loc' = [loc EXCEPT ![p] =
       Return(AfterCall(p, Call("doc.list", 0, TRUE, FALSE),
                [coll |-> GetDocs(docs)]),
              LET r == AuditResult(loc[p].page, GetDocs(docs), fillers)
              IN  IF prev[p].op = "auditSync" /\ prev[p].ok
                  THEN [r EXCEPT !.missingInFirestore =
                                    prev[p].value.missingInFirestore \o @]
                  ELSE r)]
  /\ UNCHANGED <<auth, docs, fillers, prev, left>>
  /\ FaultAccounting(p)

\* lines 304-382: collection('users').get(), then the report
AuditDocs(p) ==
  /\ loc[p].pc = "a_docs"
  /\ \/ loc' = [loc EXCEPT ![p] =
          Return(AfterCall(p, Call("doc.list", 0, TRUE, FALSE),
                   [coll |-> GetDocs(docs)]),
                 AuditResult(loc[p].page, GetDocs(docs), fillers))]
     \/ loc' = [loc EXCEPT ![p] =
          Throw(AfterCall(p, Call("doc.list", 0, FALSE, FALSE), <<>>),
                "doc.list")]
  /\ UNCHANGED <<auth, docs, fillers, prev, left>>
  /\ FaultAccounting(p)

AuditStep(p) ==
  \/ AuditList(p)
  \/ AuditDocs(p)

(***************************************************************************)
(* migrateAuthToFirestore().  The loop visits the users of the page in     *)
(* order; loc[p].idx is the entry being processed.  The users listed ahead *)
(* have their documents, so the loop reads their documents and skips them. *)
(***************************************************************************)
MigrateBegin(p) ==
  /\ Begin(p, [op |-> "migrateAuthToFirestore", pc |-> "m_list"])
  /\ UNCHANGED <<auth, docs, fillers, faults>>

\* line 398: on to the next entry of the page; line 429 after the last one
MigrateAdvance(l) ==
  IF l.idx < Len(l.page)
  THEN Merge(l, [idx |-> l.idx + 1, pc |-> "m_docGet"])
  ELSE Return(l, [migrated |-> l.migrated, errors |-> l.errors])

\* line 396: listUsers(1000), outside any try
MigrateList(p) ==
  /\ loc[p].pc = "m_list"
  /\ \/ loc' = [loc EXCEPT ![p] =
          MigrateAdvance(AfterCall(p, Call("auth.listUsers", 0, TRUE, FALSE),
            [page |-> ListUsers(auth, fillers), idx |-> 0]))]
     \/ loc' = [loc EXCEPT ![p] =
          Throw(AfterCall(p, Call("auth.listUsers", 0, FALSE, FALSE), <<>>),
                "auth.listUsers")]
  /\ UNCHANGED <<auth, docs, fillers, prev, left>>
  /\ FaultAccounting(p)

\* line 405
MigrateRawRole(rec) == OrElse(rec.role, WAITER)

\* line 406
MigrateRole(rec) == OrElse(NormalizeRole(MigrateRawRole(rec)), WAITER)

\* lines 405-411: the claim is rewritten when normalizing changed it
MigrateWrite(l) ==
  LET rec == l.page[l.idx].rec
  IN  IF MigrateRawRole(rec) # MigrateRole(rec)
      THEN Merge(l, [pc |-> "m_setClaims"])
      ELSE Merge(l, [pc |-> "m_docSet"])

\* A loop that writes the document whether or not one exists.
MigrateAfterGetAlways(l, exists) == MigrateWrite(l)

\* line 402: if (!userDoc.exists)
MigrateAfterGet(l, exists) ==
  IF exists THEN MigrateAdvance(l) ELSE MigrateWrite(l)

\* line 400: userDocRef.get(), outside the try: a rejection ends the run
MigrateDocGet(p) ==
  /\ loc[p].pc = "m_docGet"
  /\ LET u == loc[p].page[loc[p].idx].uid IN
     \/ loc' = [loc EXCEPT ![p] =
          MigrateAfterGet(AfterCall(p, Call("doc.get", u, TRUE, FALSE), <<>>),
                          HasDoc(docs, u))]
     \/ loc' = [loc EXCEPT ![p] =
          Throw(AfterCall(p, Call("doc.get", u, FALSE, FALSE), <<>>),
                "doc.get")]
  /\ UNCHANGED <<auth, docs, fillers, prev, left>>
  /\ FaultAccounting(p)

\* lines 424-426: the catch of one user
MigrateError(l, u, message) ==
  [errors |-> Append(l.errors, [uid |-> u, message |-> message])]

\* line 410: setCustomUserClaims(uid, {role: normalizedRole})
MigrateClaims(p) ==
  /\ loc[p].pc = "m_setClaims"
  /\ LET u == loc[p].page[loc[p].idx].uid
         rec == loc[p].page[loc[p].idx].rec
     IN
     \/ /\ HasUser(auth, u)
        /\ auth' = [auth EXCEPT ![u].role = MigrateRole(rec)]
        /\ loc' = [loc EXCEPT ![p] =
             AfterCall(p, Call("auth.setCustomUserClaims", u, TRUE, FALSE),
               [pc |-> "m_docSet"])]
     \/ /\ auth' = auth
        /\ loc' = [loc EXCEPT ![p] =
             MigrateAdvance(
               AfterCall(p, Call("auth.setCustomUserClaims", u, FALSE, FALSE),
                 MigrateError(loc[p], u, "auth.setCustomUserClaims")))]
  /\ UNCHANGED <<docs, fillers, prev, left>>
  /\ FaultAccounting(p)

\* lines 413-421: the document written for the user listed
MigrateDoc(u, rec) ==
  UserDoc(u, OrElse(rec.email, EmptyStr), OrElse(rec.displayName, EmptyStr),
          MigrateRole(rec), StatusOf(rec.disabled), NOW, NOW)

\* lines 413-423: userDocRef.set(...); migrated++
MigrateDocSet(p) ==
  /\ loc[p].pc = "m_docSet"
  /\ LET u == loc[p].page[loc[p].idx].uid
         rec == loc[p].page[loc[p].idx].rec
     IN
     \/ /\ docs' = [docs EXCEPT ![u] = MigrateDoc(u, rec)]
        /\ loc' = [loc EXCEPT ![p] =
             MigrateAdvance(AfterCall(p, Call("doc.set", u, TRUE, FALSE),
               [migrated |-> loc[p].migrated + 1]))]
     \/ /\ docs' = docs
        /\ loc' = [loc EXCEPT ![p] =
             MigrateAdvance(AfterCall(p, Call("doc.set", u, FALSE, FALSE),
               MigrateError(loc[p], u, "doc.set")))]
  /\ UNCHANGED <<auth, fillers, prev, left>>
  /\ FaultAccounting(p)

MigrateStep(p) ==
  \/ MigrateList(p)
  \/ MigrateDocGet(p)
  \/ MigrateClaims(p)
  \/ MigrateDocSet(p)

(***************************************************************************)
(* normalizeRole(role), called on a string and then on its own result.     *)
(***************************************************************************)
LowerChar(c) ==
  IF \E i \in 1..26 : UpperLetters[i] = c
  THEN LowerLetters[CHOOSE i \in 1..26 : UpperLetters[i] = c]
  ELSE c

\* The characters a caller may write for the letter c of a role name.
Spellings(c) ==
  {c, LowerChar(c)} \cup (IF c = "I" THEN {DotlessI} ELSE {})
                   \cup (IF c = "K" THEN {KelvinSign} ELSE {})

\* Every spelling of the role name r.
RECURSIVE RoleSpellings(_)
RoleSpellings(r) ==
  IF r = <<>> THEN {<<>>}
  ELSE {<<c>> \o t : c \in Spellings(Head(r)), t \in RoleSpellings(Tail(r))}

\* The strings normalizeRole is called with: every spelling of the three
\* roles, and strings that are no role.
RoleInputs ==
  UNION {RoleSpellings(r) : r \in ValidRoles}
    \cup {EmptyStr, chef, <<"A","D","M","I">>, ADMIN \o <<"S">>,
          <<" ">> \o ADMIN, WAITER \o <<" ">>}

NormalizeBegin(p, role) ==
  /\ Begin(p, [op |-> "normalizeRole", pc |-> "n_call", role |-> role])
  /\ UNCHANGED <<auth, docs, fillers, faults>>

\* lines 107-111: normalizeRole(role)
NormalizeCall(p) ==
  /\ loc[p].pc = "n_call"
  /\ loc' = [loc EXCEPT ![p] =
       LET l == Merge(loc[p], [norm |-> NormalizeRole(loc[p].role)])
       IN  IF l.norm = Null THEN Return(l, Null)
           ELSE Merge(l, [pc |-> "n_again"])]
  /\ UNCHANGED <<auth, docs, fillers, prev, left, faults>>

\* normalizeRole(normalizeRole(role))
NormalizeAgain(p) ==
  /\ loc[p].pc = "n_again"
  /\ loc' = [loc EXCEPT ![p] = Return(loc[p], NormalizeRole(loc[p].norm))]
  /\ UNCHANGED <<auth, docs, fillers, prev, left, faults>>

(***************************************************************************)
(* Initial states and specifications.                                      *)
(***************************************************************************)
\* users[u] and documents[u]: what uid u may hold when the calls begin
InitStores(users, documents, ahead, n, f) ==
  /\ auth \in {a \in [UIDs -> UNION {users[u] : u \in UIDs} \cup {NoUser}] :
                 \A u \in UIDs : a[u] = NoUser \/ a[u] \in users[u]}
  /\ docs \in {d \in [UIDs -> UNION {documents[u] : u \in UIDs} \cup {NoDoc}] :
                 \A u \in UIDs : d[u] = NoDoc \/ d[u] \in documents[u]}
  /\ fillers \in ahead
  /\ loc = [p \in Procs |-> IdleLoc]
  /\ prev = [p \in Procs |-> Summary(IdleLoc)]
  /\ left = n
  /\ faults = f

(***************************************************************************)
(* Spec: one call of createUser, updateUser, disableUser or enableUser,    *)
(* from stores in which uid 1 is in any state (user records written        *)
(* before the service existed hold any role claim or none) and uid 2 is    *)
(* absent, in sync, or on one side only.                                   *)
(***************************************************************************)
EngineUsers ==
  [u \in UIDs |->
     IF u = 1
     THEN {UserRecord(MailC, n, r, d) :
             n \in {NameB, Undef}, r \in {ADMIN, kitchen, chef, Undef},
             d \in BOOLEAN}
     ELSE {UserRecord(MailC, NameB, WAITER, FALSE)}]
EngineDocs ==
  [u \in UIDs |->
     IF u = 1
     THEN {UserDoc(u, MailC, NameB, r, s, T0, T0) :
             r \in {ADMIN, KITCHEN}, s \in {ACTIVE, INACTIVE}}
     ELSE {UserDoc(u, MailC, NameB, WAITER, ACTIVE, T0, T0)}]
EngineInit == InitStores(EngineUsers, EngineDocs, {0}, 1, MaxFaults)

EngineNext ==
  \/ \E role \in {ADMIN, kitchen, chef} : CreateUserBegin(1, MailA, NameA, role)
  \/ CreateUserStep(1)
  \/ \E u \in UIDs, name \in {Undef, NameA}, role \in {Undef, kitchen, chef} :
        UpdateUserBegin(1, u, name, role)
  \/ UpdateUserStep(1)
  \/ \E u \in UIDs, op \in ToggleOps : ToggleBegin(1, op, u)
  \/ ToggleStep(1)

Spec == EngineInit /\ [][EngineNext]_vars


(***************************************************************************)
(* SpecToggle: up to MaxOps calls of disableUser and enableUser in a row,  *)
(* from the same stores.                                                   *)
(***************************************************************************)
ToggleInit == InitStores(EngineUsers, EngineDocs, {0}, MaxOps, MaxFaults)

ToggleNext ==
  \/ \E u \in UIDs, op \in ToggleOps : ToggleBegin(1, op, u)
  \/ ToggleStep(1)

SpecToggle == ToggleInit /\ [][ToggleNext]_vars

(***************************************************************************)
(* SpecAudit: one call of auditSync, from stores in which each uid is      *)
(* absent from or present in either store with any name, role and status,  *)
(* and with no or PageSize - 1 users listed ahead of them.                 *)
(***************************************************************************)
AuditUsers ==
  [u \in UIDs |->
     {UserRecord(MailC, n, r, d) :
        n \in {NameB, Undef}, r \in {ADMIN, kitchen, Undef}, d \in BOOLEAN}]
AuditDocuments ==
  [u \in UIDs |->
     {UserDoc(u, MailC, n, r, s, T0, T0) :
        n \in {NameB, EmptyStr}, r \in {ADMIN, KITCHEN},
        s \in {ACTIVE, INACTIVE}}]
AuditInit ==
  InitStores(AuditUsers, AuditDocuments, {0, PageSize - 1}, 1, MaxFaults)

AuditNext ==
  \/ AuditBegin(1)
  \/ AuditStep(1)

SpecAudit == AuditInit /\ [][AuditNext]_vars

(***************************************************************************)
(* SpecMigrate: up to MaxOps runs of migrateAuthToFirestore in a row,      *)
(* from stores in which each uid is absent or holds a user with any role   *)
(* claim, with or without its document, and with no or PageSize - 1 users  *)
(* listed ahead of them.                                                   *)
(***************************************************************************)
MigrateUsers ==
  [u \in UIDs |->
     {UserRecord(MailC, n, r, d) :
        n \in {NameB, Undef}, r \in {ADMIN, kitchen, chef, Undef},
        d \in BOOLEAN}]
MigrateDocuments ==
  [u \in UIDs |-> {UserDoc(u, MailC, NameB, ADMIN, ACTIVE, T0, T0)}]
MigrateInit ==
  InitStores(MigrateUsers, MigrateDocuments, {0, PageSize - 1}, MaxOps,
             MaxFaults)

MigrateNext ==
  \/ MigrateBegin(1)
  \/ MigrateStep(1)

SpecMigrate == MigrateInit /\ [][MigrateNext]_vars

(***************************************************************************)
(* SpecNormalize: normalizeRole on every string of RoleInputs; the stores  *)
(* are empty and play no part.                                             *)
(***************************************************************************)
NoUsers == [u \in UIDs |-> {}]

NormalizeInit == InitStores(NoUsers, NoUsers, {0}, 1, 0)

NormalizeNext ==
  \/ \E role \in RoleInputs : NormalizeBegin(1, role)
  \/ NormalizeCall(1)
  \/ NormalizeAgain(1)

SpecNormalize == NormalizeInit /\ [][NormalizeNext]_vars

(***************************************************************************)
(* SpecDisjoint: two callers at once, caller p calling updateUser,         *)
(* disableUser or enableUser on uid p; the store calls of the two          *)
(* interleave in any order.                                                *)
(***************************************************************************)
DisjointUsers ==
  [u \in UIDs |-> {UserRecord(MailC, NameB, kitchen, FALSE)}]
DisjointDocs ==
  [u \in UIDs |-> {UserDoc(u, MailC, NameB, KITCHEN, ACTIVE, T0, T0)}]
DisjointInit ==
  InitStores(DisjointUsers, DisjointDocs, {0}, Cardinality(Procs), MaxFaults)

DisjointNext ==
  \E p \in Procs :
    \/ \E name \in {Undef, NameA}, role \in {Undef, ADMIN} :
          UpdateUserBegin(p, p, name, role)
    \/ UpdateUserStep(p)
    \/ \E op \in ToggleOps : ToggleBegin(p, op, p)
    \/ ToggleStep(p)

SpecDisjoint == DisjointInit /\ [][DisjointNext]_vars

(***************************************************************************)
(* SpecSequence: up to MaxOps calls in a row, of any of the six            *)
(* operations, by one caller.  uid 1 starts absent, in sync or on one side *)
(* only; uid 2 is free for createUser.                                     *)
(***************************************************************************)
SequenceUsers ==
  [u \in UIDs |->
     IF u = 1
     THEN {UserRecord(MailC, NameB, r, FALSE) : r \in {kitchen, chef, Undef}}
     ELSE {}]
SequenceDocs ==
  [u \in UIDs |->
     IF u = 1 THEN {UserDoc(u, MailC, NameB, KITCHEN, ACTIVE, T0, T0)} ELSE {}]
SequenceInit ==
  InitStores(SequenceUsers, SequenceDocs, {0}, MaxOps, MaxFaults)

SequenceNext ==
  \/ CreateUserBegin(1, MailA, NameA, ADMIN)
  \/ CreateUserStep(1)
  \/ \E u \in UIDs : UpdateUserBegin(1, u, NameA, ADMIN)
  \/ UpdateUserStep(1)
  \/ \E u \in UIDs, op \in ToggleOps : ToggleBegin(1, op, u)
  \/ ToggleStep(1)
  \/ AuditBegin(1)
  \/ AuditStep(1)
  \/ MigrateBegin(1)
  \/ MigrateStep(1)

SpecSequence == SequenceInit /\ [][SequenceNext]_vars

(***************************************************************************)
(* SpecRace: two callers at once, both calling updateUser, disableUser or  *)
(* enableUser on uid 1, which starts in sync or without its document; the  *)
(* store calls of the two interleave in any order.                         *)
(***************************************************************************)
RaceUsers ==
  [u \in UIDs |->
     IF u = 1 THEN {UserRecord(MailC, NameB, kitchen, FALSE)} ELSE {}]
RaceDocs ==
  [u \in UIDs |->
     IF u = 1 THEN {UserDoc(u, MailC, NameB, KITCHEN, ACTIVE, T0, T0)} ELSE {}]
RaceInit ==
  /\ InitStores(RaceUsers, RaceDocs, {0}, Cardinality(Procs), MaxFaults)
  /\ HasUser(auth, 1)

RaceNext ==
  \E p \in Procs :
    \/ \E name \in {Undef, NameA}, role \in {Undef, ADMIN} :
          UpdateUserBegin(p, 1, name, role)
    \/ UpdateUserStep(p)
    \/ \E op \in ToggleOps : ToggleBegin(p, op, 1)
    \/ ToggleStep(p)

SpecRace == RaceInit /\ [][RaceNext]_vars

(***************************************************************************)
(* SpecOverlap: two callers at once, each calling createUser, updateUser,  *)
(* disableUser, enableUser or migrateAuthToFirestore; uid 1 starts absent, *)
(* in sync or without its document, and uid 2 absent, so no document is    *)
(* without its user; the store calls of the two interleave in any order.   *)
(***************************************************************************)
OverlapInit ==
  /\ InitStores(RaceUsers, RaceDocs, {0}, Cardinality(Procs), MaxFaults)
  /\ \A u \in UIDs : HasDoc(docs, u) => HasUser(auth, u)

OverlapNext ==
  \E p \in Procs :
    \/ CreateUserBegin(p, MailA, NameA, ADMIN)
    \/ CreateUserStep(p)
    \/ \E u \in UIDs, role \in {Undef, ADMIN} :
          UpdateUserBegin(p, u, NameA, role)
    \/ UpdateUserStep(p)
    \/ \E u \in UIDs, op \in ToggleOps : ToggleBegin(p, op, u)
    \/ ToggleStep(p)
    \/ MigrateBegin(p)
    \/ MigrateStep(p)

SpecOverlap == OverlapInit /\ [][OverlapNext]_vars



(***************************************************************************)
(* Properties.                                                             *)
(***************************************************************************)
EngineOps == {"createUser", "updateUser", "disableUser", "enableUser"}

Done(p, op) == loc[p].op = op /\ loc[p].pc = "done"

DocApis == {"doc.get", "doc.set", "doc.update"}

\* The positions in l.calls of the failed document-store calls and of the
\* calls made by a rollback block.
FailedDocCalls(l) ==
  {i \in DOMAIN l.calls : l.calls[i].api \in DocApis /\ ~l.calls[i].ok}
RollbackCalls(l) == {i \in DOMAIN l.calls : l.calls[i].rb}
RollbackFailed(l) == \E i \in RollbackCalls(l) : ~l.calls[i].ok

StoresAsBefore(l) == auth = l.pre.auth /\ docs = l.pre.docs

BothOrNeither(u) ==
  \/ HasUser(auth, u) /\ HasDoc(docs, u) /\ auth[u].role = docs[u].role
  \/ ~HasUser(auth, u) /\ ~HasDoc(docs, u)

C2_OriginalErrorSurfaces ==
  \A p \in Procs :
    loc[p].op \in EngineOps =>
      /\ \A i, j \in RollbackCalls(loc[p]) :
           loc[p].calls[i].api = loc[p].calls[j].api => i = j
      /\ loc[p].op # "updateUser" => Cardinality(RollbackCalls(loc[p])) <= 1
      /\ \A i \in FailedDocCalls(loc[p]) :
           /\ loc[p].err = loc[p].calls[i].api
           /\ loc[p].pc = "done" => ~loc[p].ok

C2_Witness ==
  \E p \in Procs :
    /\ Done(p, "updateUser")
    /\ FailedDocCalls(loc[p]) # {} /\ RollbackFailed(loc[p])
    /\ loc[p].err = "doc.update"

\* C3: createUser with a role that does not normalize throws the validation
\* error without a single store call, and both stores are as they were.
C3_InvalidRoleTouchesNothing ==
  \A p \in Procs :
    loc[p].op = "createUser" /\ OptToUpperCase(loc[p].role) \notin ValidRoles =>
      /\ loc[p].pc = "done" /\ ~loc[p].ok /\ loc[p].err = "Rol invalido"
      /\ loc[p].calls = <<>>
      /\ StoresAsBefore(loc[p])

C3_Witness ==
  \E p \in Procs : Done(p, "createUser") /\ loc[p].role = chef

\* C4: when createUser returns, the identity store holds the returned uid
\* enabled with the normalized role as its claim, the document store holds
\* a record under that uid with that role and status active, and the value
\* returned carries the uid, the e-mail and name given and the normalized role.
C4_CreateSuccess ==
  \A p \in Procs :
    Done(p, "createUser") /\ loc[p].ok =>
      LET u == loc[p].uid
          r == ToUpperCase(loc[p].role)
      IN  /\ u \in UIDs /\ r \in ValidRoles
          /\ HasUser(auth, u) /\ HasDoc(docs, u)
          /\ auth[u] = UserRecord(loc[p].email, loc[p].name, r, FALSE)
          /\ docs[u].uid = u /\ docs[u].role = r /\ docs[u].status = ACTIVE
          /\ docs[u].email = loc[p].email /\ docs[u].name = loc[p].name
          /\ loc[p].value.uid = u /\ loc[p].value.email = loc[p].email
          /\ loc[p].value.name = loc[p].name /\ loc[p].value.role = r

C4_Witness ==
  \E p \in Procs :
    /\ Done(p, "createUser") /\ loc[p].ok /\ loc[p].role = kitchen
    /\ docs[loc[p].uid].role = KITCHEN

\* C5: after a successful disableUser the principal is disabled and the
\* record inactive, after a successful enableUser the principal is enabled
\* and the record active, also when the record had to be created.
C5_ToggleSetsBothStores ==
  \A p \in Procs :
    /\ Done(p, "disableUser") /\ loc[p].ok =>
         /\ HasUser(auth, loc[p].uid) /\ HasDoc(docs, loc[p].uid)
         /\ auth[loc[p].uid].disabled = TRUE
         /\ docs[loc[p].uid].status = INACTIVE
    /\ Done(p, "enableUser") /\ loc[p].ok =>
         /\ HasUser(auth, loc[p].uid) /\ HasDoc(docs, loc[p].uid)
         /\ auth[loc[p].uid].disabled = FALSE
         /\ docs[loc[p].uid].status = ACTIVE

C5_Witness ==
  \E p \in Procs :
    /\ Done(p, "enableUser") /\ loc[p].ok
    /\ ~HasDoc(loc[p].pre.docs, loc[p].uid)
    /\ loc[p].pre.auth[loc[p].uid].disabled
    /\ docs[loc[p].uid].status = ACTIVE

\* C7: a successful updateUser on a uid with a principal and no record
\* creates the record; its role is the normalized supplied role when a role
\* is supplied, its name the supplied name or else the principal's displayName
\* (the empty string when the principal has none), and its status is inactive
\* exactly when the principal is disabled.
C7_UpdateAutoSync ==
  \A p \in Procs :
    Done(p, "updateUser") /\ loc[p].ok /\ ~HasDoc(loc[p].pre.docs, loc[p].uid) =>
      LET u == loc[p].uid IN
      /\ HasUser(auth, u) /\ HasDoc(docs, u)
      /\ docs[u].uid = u
      /\ Truthy(loc[p].role) => docs[u].role = ToUpperCase(loc[p].role)
      /\ docs[u].name =
           IF Truthy(loc[p].name) THEN loc[p].name
           ELSE IF auth[u].displayName # Undef THEN auth[u].displayName
           ELSE EmptyStr
      /\ (docs[u].status = INACTIVE) <=> auth[u].disabled
      /\ docs[u].status \in {ACTIVE, INACTIVE}

C7_Witness ==
  \E p \in Procs :
    /\ Done(p, "updateUser") /\ loc[p].ok /\ ~HasDoc(loc[p].pre.docs, loc[p].uid)
    /\ loc[p].role = kitchen /\ loc[p].name = Undef
    /\ docs[loc[p].uid].role = KITCHEN
    /\ docs[loc[p].uid].status = INACTIVE

\* C6: for a uid held by both stores and active, a successful disableUser
\* followed by a successful enableUser leaves both stores as they were before
\* the disableUser, but for the updatedAt of the uid's record.
C6_DisableEnableRoundTrip ==
  \A p \in Procs :
    LET u == loc[p].uid
        before == prev[p].pre
    IN  /\ Done(p, "enableUser") /\ loc[p].ok
        /\ prev[p].op = "disableUser" /\ prev[p].pc = "done" /\ prev[p].ok
        /\ prev[p].uid = u
        /\ HasUser(before.auth, u) /\ HasDoc(before.docs, u)
        /\ ~before.auth[u].disabled /\ before.docs[u].status = ACTIVE
        => /\ auth = before.auth
           /\ docs = [before.docs EXCEPT ![u].updatedAt = NOW]
           /\ ~auth[u].disabled /\ docs[u].status = ACTIVE

C6_Witness ==
  \E p \in Procs :
    LET u == loc[p].uid
        before == prev[p].pre
    IN  /\ Done(p, "enableUser") /\ loc[p].ok
        /\ prev[p].op = "disableUser" /\ prev[p].pc = "done" /\ prev[p].ok
        /\ prev[p].uid = u
        /\ HasUser(before.auth, u) /\ HasDoc(before.docs, u)
        /\ ~before.auth[u].disabled /\ before.docs[u].status = ACTIVE
        /\ before.auth[u].role = kitchen /\ before.docs[u].role = ADMIN
        /\ docs[u].role = ADMIN /\ docs[u].updatedAt = NOW

(***************************************************************************)
(* auditSync                                                               *)
(***************************************************************************)
AuditDone(p) == Done(p, "auditSync") /\ loc[p].ok

UidsOf(list) == {list[i].uid : i \in 1..Len(list)}

\* C8: auditSync returns missingInFirestore holding exactly the uids of the
\* identity snapshot (the page listUsers returned) that have no document, and
\* missingInAuth exactly the uids of the documents that have no user in the
\* identity snapshot, each uid once, and the two count fields of the summary
\* are the lengths of the two lists.
C8_AuditMissingLists ==
  \A p \in Procs :
    AuditDone(p) =>
      LET r == loc[p].value
          identity == UidsOf(loc[p].page)
          documents == {u \in UIDs : HasDoc(docs, u)}
      IN  /\ identity \subseteq {u \in UIDs : HasUser(auth, u)}
          /\ UidsOf(r.missingInFirestore) = identity \ documents
          /\ Len(r.missingInFirestore) = Cardinality(identity \ documents)
          /\ UidsOf(r.missingInAuth) = documents \ identity
          /\ Len(r.missingInAuth) = Cardinality(documents \ identity)
          /\ r.summary.missingInFirestoreCount = Len(r.missingInFirestore)
          /\ r.summary.missingInAuthCount = Len(r.missingInAuth)

\* Identity store {1, 2}, document store {1}: the audit lists uid 2 alone.
C8_Witness ==
  \E p \in Procs :
    /\ AuditDone(p)
    /\ fillers = 0
    /\ HasUser(auth, 1) /\ HasUser(auth, 2) /\ HasDoc(docs, 1) /\ ~HasDoc(docs, 2)
    /\ UidsOf(loc[p].value.missingInFirestore) = {2}
    /\ loc[p].value.summary.missingInFirestoreCount = 1
    /\ loc[p].value.missingInAuth = <<>>
    /\ ~loc[p].value.summary.isConsistent

\* C9: in every report auditSync returns, summary.isConsistent is true exactly
\* when missingInFirestore, missingInAuth and inconsistencies are all empty.
C9_IsConsistentIffEmpty ==
  \A p \in Procs :
    AuditDone(p) =>
      LET r == loc[p].value
      IN  r.summary.isConsistent <=>
            /\ r.missingInFirestore = <<>>
            /\ r.missingInAuth = <<>>
            /\ r.inconsistencies = <<>>

\* Both uids in both stores with the same fields: a consistent report.
C9_Witness ==
  \E p \in Procs :
    /\ AuditDone(p)
    /\ loc[p].value.summary.isConsistent
    /\ loc[p].value.inconsistencies = <<>>
    /\ \A u \in UIDs : HasUser(auth, u) /\ HasDoc(docs, u)
    /\ loc[p].value.summary.totalInAuth = 2
    /\ loc[p].value.summary.totalInFirestore = 2

(***************************************************************************)
(* migrateAuthToFirestore                                                  *)
(***************************************************************************)
MigrateDone(p) == Done(p, "migrateAuthToFirestore")

\* No store call of the run failed.
NoFailure(l) == \A i \in 1..Len(l.calls) : l.calls[i].ok

StoreWrites(l) ==
  {i \in 1..Len(l.calls) :
     l.calls[i].api \in {"auth.setCustomUserClaims", "doc.set"}}

\* The users of the stores s that have no document.
Lacking(s) == {u \in UIDs : HasUser(s.auth, u) /\ ~HasDoc(s.docs, u)}

\* u is among the first PageSize users, with ahead users listed before it.
WithinPage(s, ahead, u) ==
  /\ HasUser(s.auth, u)
  /\ ahead + Cardinality({v \in UIDs : HasUser(s.auth, v) /\ v <= u}) <= PageSize

LackingWithinPage(s, ahead) == {u \in Lacking(s) : WithinPage(s, ahead, u)}

\* The run of p that just ended followed another run, and no store call
\* failed in either.
SecondRun(p) ==
  /\ MigrateDone(p) /\ NoFailure(loc[p])
  /\ prev[p].op = "migrateAuthToFirestore" /\ prev[p].pc = "done"
  /\ prev[p].ok /\ prev[p].value.errors = <<>>

\* What the second of two runs in a row does and leaves.
SecondRunIdle(p) ==
  /\ loc[p].ok
  /\ loc[p].value.migrated = 0 /\ loc[p].value.errors = <<>>
  /\ StoreWrites(loc[p]) = {}
  /\ auth = loc[p].pre.auth /\ docs = loc[p].pre.docs
  /\ Cardinality({u \in UIDs : HasDoc(docs, u)})
       = Cardinality({u \in UIDs : HasDoc(prev[p].pre.docs, u)})
           + prev[p].value.migrated

FailedCallsFor(l, u) ==
  {i \in DOMAIN l.calls :
     /\ ~l.calls[i].ok /\ l.calls[i].uid = u
     /\ l.calls[i].api \in {"doc.get", "auth.setCustomUserClaims", "doc.set"}}

ErrorsFor(l, u) == {i \in DOMAIN l.errors : l.errors[i].uid = u}

\* C11 as stated: once listUsers has returned, a failed store call made for
\* one uid (the existence check, the claim write or the document write) is one
\* entry of errors for that uid, every uid of the page is still processed, and
\* the run returns with migrated plus the number of errors equal to the number
\* of listed users that had no document.
C11_EveryFailureIsOneEntry ==
  \A p \in Procs :
    MigrateDone(p) /\ loc[p].calls[1].ok =>
      /\ loc[p].ok
      /\ loc[p].value.errors = loc[p].errors
      /\ \A u \in UIDs :
           Cardinality(ErrorsFor(loc[p], u)) = Cardinality(FailedCallsFor(loc[p], u))
      /\ \A u \in UidsOf(loc[p].page) :
           \E i \in DOMAIN loc[p].calls :
             loc[p].calls[i].api = "doc.get" /\ loc[p].calls[i].uid = u
      /\ loc[p].value.migrated + Len(loc[p].value.errors)
           = Cardinality({u \in UidsOf(loc[p].page) : ~HasDoc(loc[p].pre.docs, u)})

(***************************************************************************)
(* normalizeRole                                                           *)
(***************************************************************************)
\* Unicode simple case folding of one character: an uppercase letter folds
\* to its lowercase letter, KELVIN SIGN to "k", DOTLESS I to itself.
CaseFoldChar(c) == IF c = KelvinSign THEN "k" ELSE LowerChar(c)

\* s and t are equal case-insensitively.
CaselessEqual(s, t) ==
  /\ Len(s) = Len(t)
  /\ \A i \in 1..Len(s) : CaseFoldChar(s[i]) = CaseFoldChar(t[i])

\* C12 as stated: normalizeRole(s) is ADMIN, KITCHEN, WAITER or null; it is a
\* role exactly when s equals one of the three case-insensitively; and when it
\* is a role, normalizeRole of it is the same role.
C12_NormalizeClosedIdempotent ==
  \A p \in Procs :
    loc[p].op = "normalizeRole" /\ loc[p].pc \in {"n_again", "done"} =>
      /\ loc[p].norm \in ValidRoles \cup {Null}
      /\ loc[p].norm # Null
           <=> \E r \in ValidRoles : CaselessEqual(loc[p].role, r)
      /\ loc[p].pc = "done" /\ loc[p].norm # Null => loc[p].value = loc[p].norm

(***************************************************************************)
(* Callers on different uids                                               *)
(***************************************************************************)
\* The step is a step of caller p.
StepOf(p) == loc'[p] # loc[p]

\* C13: a store call or a return of an operation on one uid leaves the user,
\* the document and the running call (its locals, and so its result) of every
\* other uid as they are, however the calls of the two operations interleave:
\* what an operation on uid A reads and leaves for A is what it reads and
\* leaves when it runs alone.
C13_DifferentUidsDoNotInterfere ==
  [][\A p \in Procs :
       StepOf(p) =>
         /\ \A q \in Procs \ {p} : loc'[q] = loc[q] /\ prev'[q] = prev[q]
         /\ \A u \in UIDs \ {loc'[p].uid} :
              auth'[u] = auth[u] /\ docs'[u] = docs[u]]_vars

\* Caller p began after caller q had written to its user, and has returned
\* after writing to both stores for its own uid while q is still running.
C13_Witness ==
  \E p, q \in Procs :
    /\ p # q /\ loc[p].uid # loc[q].uid
    /\ loc[q].pc \notin {"idle", "done"} /\ loc[q].calls # <<>>
    /\ loc[p].pc = "done" /\ loc[p].ok
    /\ loc[p].pre.auth[loc[q].uid] # loc[q].pre.auth[loc[q].uid]
    /\ auth[loc[p].uid] # loc[p].pre.auth[loc[p].uid]
    /\ docs[loc[p].uid] # loc[p].pre.docs[loc[p].uid]

(***************************************************************************)
(* Deletions                                                               *)
(***************************************************************************)
\* The running call of p is a createUser that created uid u and has written
\* no document, and is in its catch block.
CreateRollbackOf(p, u) ==
  /\ loc[p].op = "createUser" /\ loc[p].pc = "c_rollback" /\ loc[p].uid = u
  /\ \E i \in DOMAIN loc[p].calls :
       loc[p].calls[i] = Call("auth.createUser", u, TRUE, FALSE)
  /\ ~\E i \in DOMAIN loc[p].calls :
       loc[p].calls[i].api = "doc.set" /\ loc[p].calls[i].ok
  /\ ~HasUser(loc[p].pre.auth, u)

\* C14: in any sequence of calls, a user record is deleted only by the catch
\* block of createUser, only for the uid that call created and only when that
\* call has written no document for it; no step of updateUser, disableUser,
\* enableUser, auditSync or migrateAuthToFirestore deletes a user record, and
\* no step deletes a document.
C14_OnlyCreateRollbackDeletes ==
  [][/\ \A u \in UIDs : HasDoc(docs, u) => HasDoc(docs', u)
     /\ \A u \in UIDs :
          HasUser(auth, u) /\ ~HasUser(auth', u)
            => \E p \in Procs : StepOf(p) /\ CreateRollbackOf(p, u)
     /\ fillers' = fillers]_vars

\* After some other call, a createUser created a user, failed, deleted it in
\* its catch block and has thrown.
C14_Witness ==
  \E p \in Procs :
    /\ Done(p, "createUser") /\ ~loc[p].ok
    /\ prev[p].op \in {"updateUser", "disableUser", "migrateAuthToFirestore"}
    /\ loc[p].calls[1] = Call("auth.createUser", loc[p].uid, TRUE, FALSE)
    /\ loc[p].calls[Len(loc[p].calls)] = Call("auth.deleteUser", loc[p].uid, TRUE, TRUE)
    /\ ~HasUser(auth, loc[p].uid) /\ ~HasDoc(docs, loc[p].uid)

(***************************************************************************)
(* Roles written to the document store                                     *)
(***************************************************************************)
\* C15 as stated: every role value a step writes to the document store, in a
\* new document or in place of another role, is one of ADMIN, KITCHEN, WAITER
\* in uppercase, whatever role claim the user record held.
C15_WrittenRolesCanonical ==
  [][\A u \in UIDs :
       HasDoc(docs', u) /\ (~HasDoc(docs, u) \/ docs'[u].role # docs[u].role)
         => docs'[u].role \in ValidRoles]_vars

\* C16: auditSync is read-only and its report is fresh: while and after an
\* auditSync call both stores are as they were when it began, and an audit
\* that follows another audit returns the same report, not one that carries
\* over what the audit before it reported.
C16_AuditReadOnlyAndFresh ==
  \A p \in Procs :
    loc[p].op = "auditSync" =>
      /\ StoresAsBefore(loc[p])
      /\ AuditDone(p) /\ prev[p].op = "auditSync" /\ prev[p].pc = "done"
         /\ prev[p].ok
           => loc[p].value = prev[p].value

\* Two audits in a row of stores that have a user without a document.
C16_Witness ==
  \E p \in Procs :
    /\ AuditDone(p)
    /\ prev[p].op = "auditSync" /\ prev[p].pc = "done" /\ prev[p].ok
    /\ Len(loc[p].value.missingInFirestore) = 1
    /\ ~loc[p].value.summary.isConsistent

(***************************************************************************)
(* Validation, rollback order and rollback values                          *)
(***************************************************************************)
\* C17 as stated: a createUser or updateUser call given a role that does not
\* normalize makes no identity-store call and no document-store call, read or
\* write.
C17_InvalidRoleMakesNoCall ==
  \A p \in Procs :
    /\ loc[p].op \in {"createUser", "updateUser"}
    /\ Truthy(loc[p].role) /\ NormalizeRole(loc[p].role) = Null
    => loc[p].calls = <<>>

\* C18 as stated: in createUser, updateUser, disableUser and enableUser a
\* compensating identity-store call is made only after an identity-store
\* write of the call succeeded and a document-store call then failed; when
\* an identity-store write fails no compensating call is made.
C18_RollbackOnlyAfterDocFailure ==
  \A p \in Procs :
    loc[p].op \in EngineOps =>
      \A i \in RollbackCalls(loc[p]) :
        /\ \E j \in 1..(i - 1) : j \in FailedDocCalls(loc[p])
        /\ \A j \in 1..(i - 1) :
             ~loc[p].calls[j].rb /\ loc[p].calls[j].api \notin DocApis
               => loc[p].calls[j].ok

\* C19 as stated: when a document-store call of disableUser or enableUser
\* fails and the compensating identity-store call succeeds, the disabled flag
\* of the user after the call is the flag before the call, whatever it was,
\* and the document store is unchanged.
C19_ToggleRollbackRestoresFlag ==
  \A p \in Procs :
    LET u == loc[p].uid IN
    /\ loc[p].op \in ToggleOps /\ loc[p].pc = "done"
    /\ FailedDocCalls(loc[p]) # {}
    /\ RollbackCalls(loc[p]) # {} /\ ~RollbackFailed(loc[p])
    => /\ auth[u].disabled = loc[p].pre.auth[u].disabled
       /\ docs = loc[p].pre.docs

\* C20 as stated: when a document-store call of updateUser fails and the
\* compensating identity-store calls succeed, the displayName and the role
\* claim of the user after the call are those it had before the call, also
\* for a user that had no role claim or no displayName.
C20_UpdateRollbackRestoresValues ==
  \A p \in Procs :
    LET u == loc[p].uid IN
    /\ Done(p, "updateUser")
    /\ FailedDocCalls(loc[p]) # {} /\ ~RollbackFailed(loc[p])
    => /\ auth[u].displayName = loc[p].pre.auth[u].displayName
       /\ auth[u].role = loc[p].pre.auth[u].role

(***************************************************************************)
(* auditSync: the inconsistencies list                                     *)
(***************************************************************************)
AuditFields == {"name", "role", "status"}

\* The field of record rec and document doc disagrees, as the comparison of
\* that field is described: exact equality of the names, case-insensitive
\* equality of the roles, disabled against status = "inactive".
Mismatch(field, rec, doc) ==
  CASE field = "name" -> rec.displayName # doc.name
    [] field = "role" -> ~CaselessEqual(rec.role, doc.role)
    [] field = "status" -> rec.disabled # (doc.status = INACTIVE)

EntriesFor(inc, u, field) ==
  {i \in 1..Len(inc) : inc[i].uid = u /\ inc[i].field = field}

\* C21: the inconsistencies list of an audit holds an entry for (uid, field)
\* exactly when the uid is in both snapshots and that field mismatches (names
\* by exact equality, roles case-insensitively, disabled against status =
\* "inactive"); a mismatching field has exactly one entry, every entry is for
\* one of the three fields, and identical snapshots give an empty list.
C21_InconsistenciesExact ==
  \A p \in Procs :
    AuditDone(p) =>
      LET inc == loc[p].value.inconsistencies
          page == loc[p].page
          coll == loc[p].coll
      IN  /\ \A i \in 1..Len(inc) :
               inc[i].uid \in UIDs /\ inc[i].field \in AuditFields
          /\ \A u \in UIDs : \A field \in AuditFields :
               Cardinality(EntriesFor(inc, u, field)) =
                 IF /\ MapHas(page, u)
                    /\ MapHas(coll, u)
                    /\ Mismatch(field, MapGet(page, u).rec,
                                MapGet(coll, u).data)
                 THEN 1 ELSE 0

\* uid 1 differs in all three fields (no displayName against "", claim
\* "kitchen" against ADMIN, disabled against active) and has three entries,
\* while uid 2 has claim "kitchen" against KITCHEN and has none.
C21_Witness ==
  \E p \in Procs :
    /\ AuditDone(p)
    /\ HasUser(auth, 1) /\ HasDoc(docs, 1) /\ HasUser(auth, 2) /\ HasDoc(docs, 2)
    /\ auth[1].displayName = Undef /\ docs[1].name = EmptyStr
    /\ auth[1].role = kitchen /\ docs[1].role = ADMIN
    /\ auth[1].disabled /\ docs[1].status = ACTIVE
    /\ auth[2].role = kitchen /\ docs[2].role = KITCHEN
    /\ auth[2].displayName = docs[2].name
    /\ auth[2].disabled = (docs[2].status = INACTIVE)
    /\ Len(loc[p].value.inconsistencies) = 3
    /\ \A field \in AuditFields :
         Cardinality(EntriesFor(loc[p].value.inconsistencies, 1, field)) = 1

\* The JavaScript booleans true and false as reported values, as Undef and
\* Null are: one element that no string is made of.
BoolValue(b) == IF b THEN <<"true">> ELSE <<"false">>

\* The value of the field as the identity store holds it, with the status
\* given by statusValue(disabled).
IdentityValue(field, rec, statusValue(_)) ==
  CASE field = "name" -> rec.displayName
    [] field = "role" -> rec.role
    [] field = "status" -> statusValue(rec.disabled)

\* The value of the field as the document holds it.
DocumentValue(field, doc) ==
  CASE field = "name" -> doc.name
    [] field = "role" -> doc.role
    [] field = "status" -> doc.status

\* Every entry of the audit's list carries the two stored values of its
\* field, the identity store's status being statusValue(disabled).
EntriesCarry(statusValue(_)) ==
  \A p \in Procs :
    AuditDone(p) =>
      LET inc == loc[p].value.inconsistencies
      IN  \A i \in 1..Len(inc) :
            /\ MapHas(loc[p].page, inc[i].uid)
            /\ MapHas(loc[p].coll, inc[i].uid)
            /\ inc[i].authValue =
                 IdentityValue(inc[i].field,
                               MapGet(loc[p].page, inc[i].uid).rec, statusValue)
            /\ inc[i].firestoreValue =
                 DocumentValue(inc[i].field,
                               MapGet(loc[p].coll, inc[i].uid).data)

\* C22 as stated: every inconsistency entry carries, for both sides, the
\* value stored in that store for the field with no normalization or mapping:
\* the stored role claim and role, the stored displayName and name, and for
\* the status the stored disabled flag and the stored status.
C22_EntriesCarryRawValues == EntriesCarry(BoolValue)

\* C22, amended: the entries for name and role carry the stored values of both
\* sides as written, and the entry for status carries the document's stored
\* status and, for the identity store, "inactive" when the stored disabled
\* flag is true and "active" when it is false.
C22_EntriesCarryStoredValues == EntriesCarry(StatusOf)

\* A disabled user with claim "kitchen" whose document says ADMIN and active:
\* the role entry reports "kitchen" and ADMIN, the status entry "inactive"
\* and "active".
C22_Witness ==
  \E p \in Procs :
    /\ AuditDone(p)
    /\ LET inc == loc[p].value.inconsistencies
       IN  /\ \E i \in 1..Len(inc) :
                /\ inc[i].uid = 1 /\ inc[i].field = "role"
                /\ inc[i].authValue = kitchen /\ inc[i].firestoreValue = ADMIN
           /\ \E i \in 1..Len(inc) :
                /\ inc[i].uid = 1 /\ inc[i].field = "status"
                /\ MapGet(loc[p].page, 1).rec.disabled
                /\ inc[i].authValue = INACTIVE
                /\ inc[i].firestoreValue = ACTIVE

(***************************************************************************)
(* migrateAuthToFirestore: the users it skips and the documents it writes  *)
(***************************************************************************)
\* The calls of l that write to a store for uid u.
WritesFor(l, u) == {i \in StoreWrites(l) : l.calls[i].uid = u}

\* C23: a run of migrateAuthToFirestore skips every uid that has a document
\* when the run begins: it makes no write call for it to either store, the
\* document and the user record (its role claim too, canonical or not) stay
\* as they were, no entry of errors is for it, and migrated counts the uids
\* that had no document and were given one, so never a skipped uid.
C23_MigrateSkipsExisting ==
  \A p \in Procs :
    loc[p].op = "migrateAuthToFirestore" =>
      /\ \A u \in UIDs :
           HasDoc(loc[p].pre.docs, u) =>
             /\ WritesFor(loc[p], u) = {}
             /\ docs[u] = loc[p].pre.docs[u]
             /\ auth[u] = loc[p].pre.auth[u]
             /\ ErrorsFor(loc[p], u) = {}
      /\ loc[p].migrated =
           Cardinality({u \in UIDs :
                          ~HasDoc(loc[p].pre.docs, u) /\ HasDoc(docs, u)})

\* uid 1 has a document and the claim "kitchen", uid 2 has no document: the
\* run returns migrated = 1 and no errors, and uid 1 keeps its claim.
C23_Witness ==
  \E p \in Procs :
    /\ MigrateDone(p) /\ loc[p].ok
    /\ fillers = 0
    /\ HasDoc(loc[p].pre.docs, 1) /\ HasUser(loc[p].pre.auth, 1)
    /\ loc[p].pre.auth[1].role = kitchen
    /\ HasUser(loc[p].pre.auth, 2) /\ ~HasDoc(loc[p].pre.docs, 2)
    /\ \E i \in 1..Len(loc[p].calls) :
         loc[p].calls[i].api = "doc.get" /\ loc[p].calls[i].uid = 1
    /\ loc[p].value.migrated = 1 /\ loc[p].value.errors = <<>>
    /\ auth[1].role = kitchen /\ docs[1] = loc[p].pre.docs[1]
    /\ HasDoc(docs, 2)

\* The run of l wrote the role claim of uid u.
WroteClaim(l, u) ==
  \E i \in 1..Len(l.calls) :
    /\ l.calls[i].api = "auth.setCustomUserClaims"
    /\ l.calls[i].uid = u /\ l.calls[i].ok

\* The document of u after the run is the one the claim describes for the
\* user record rec: the normalized claim as role (WAITER when the claim is
\* absent), and status "inactive" exactly when disabled.
MigratedRecordOf(u, rec) ==
  /\ HasDoc(docs, u)
  /\ docs[u].uid = u
  /\ rec.role = Undef => docs[u].role = WAITER
  /\ NormalizeRole(rec.role) # Null => docs[u].role = NormalizeRole(rec.role)
  /\ docs[u].role \in ValidRoles
  /\ (docs[u].status = INACTIVE) <=> rec.disabled
  /\ docs[u].status \in {ACTIVE, INACTIVE}

\* C24 as stated: for each listed user that lacks a document, a run of
\* migrateAuthToFirestore with no store failure creates the document with
\* the normalized role claim as role (WAITER when the claim is absent) and
\* status "inactive" exactly when disabled is true, and writes the role back
\* as the user's role claim exactly when the stored claim differs from it.
C24_MigrateNormalizesAndWritesBack ==
  \A p \in Procs :
    MigrateDone(p) /\ loc[p].ok /\ NoFailure(loc[p]) =>
      \A u \in LackingWithinPage(loc[p].pre, fillers) :
        LET rec == loc[p].pre.auth[u]
        IN  /\ MigratedRecordOf(u, rec)
            /\ WroteClaim(loc[p], u) <=> rec.role # docs[u].role
            /\ WroteClaim(loc[p], u) => auth[u].role = docs[u].role

(***************************************************************************)
(* Callers on the same uid                                                 *)
(***************************************************************************)
Running(p) == loc[p].pc \notin {"idle", "done"}

\* The two stores agree on uid u: both hold it, disabled is status =
\* "inactive", and the role claim is the role case-insensitively.
StoresAgree(u) ==
  /\ HasUser(auth, u) /\ HasDoc(docs, u)
  /\ auth[u].disabled = (docs[u].status = INACTIVE)
  /\ CaselessEqual(auth[u].role, docs[u].role)

\* C25: two operations on the same uid are not serialized: while a call of
\* one caller on a uid is running, between any two of its store calls,
\* another caller that has no call running can begin updateUser, disableUser
\* or enableUser on that uid, so the store calls of the two interleave; among
\* the interleavings is one after which the stores disagree on the uid
\* although no compensation failed (the witness).
C25_SameUidNotSerialized ==
  \A p \in Procs : \A q \in Procs \ {p} :
    (Running(p) /\ ~Running(q) /\ left > 0) =>
      /\ \A op \in ToggleOps : ENABLED ToggleBegin(q, op, loc[p].uid)
      /\ \A name \in {Undef, NameA}, role \in {Undef, ADMIN} :
           ENABLED UpdateUserBegin(q, loc[p].uid, name, role)

\* disableUser and enableUser on uid 1 at once, begun with uid 1 in sync,
\* every store call of both succeeding, so no rollback was attempted: both
\* have returned, and the user and the document disagree on whether uid 1 is
\* disabled.
C25_Witness ==
  \E p \in Procs : \E q \in Procs \ {p} :
    /\ Done(p, "disableUser") /\ loc[p].ok /\ NoFailure(loc[p])
    /\ Done(q, "enableUser") /\ loc[q].ok /\ NoFailure(loc[q])
    /\ loc[p].uid = 1 /\ loc[q].uid = 1
    /\ HasDoc(loc[p].pre.docs, 1) /\ HasDoc(loc[q].pre.docs, 1)
    /\ loc[p].pre.docs[1].status = ACTIVE /\ ~loc[p].pre.auth[1].disabled
    /\ RollbackCalls(loc[p]) = {} /\ RollbackCalls(loc[q]) = {}
    /\ HasUser(auth, 1) /\ HasDoc(docs, 1)
    /\ auth[1].disabled # (docs[1].status = INACTIVE)

(***************************************************************************)
(* updateUser on a uid that has its document                               *)
(***************************************************************************)
CallsTo(l, api) == {i \in 1..Len(l.calls) : l.calls[i].api = api}

\* C26: a successful updateUser on a uid that has a document when the call
\* begins changes the supplied fields only: in the document the name and the
\* role when supplied, and updatedAt, while uid, email, status and createdAt
\* stay; in the user record the displayName and the role claim when supplied,
\* while disabled and email stay; for a field not supplied no write call is
\* made and neither store's value changes.
C26_UpdateChangesSuppliedOnly ==
  \A p \in Procs :
    (Done(p, "updateUser") /\ loc[p].ok /\ HasDoc(loc[p].pre.docs, loc[p].uid))
    =>
      LET u == loc[p].uid
          was == loc[p].pre
      IN  /\ HasUser(auth, u) /\ HasDoc(docs, u)
          /\ docs[u].uid = was.docs[u].uid
          /\ docs[u].email = was.docs[u].email
          /\ docs[u].status = was.docs[u].status
          /\ docs[u].createdAt = was.docs[u].createdAt
          /\ auth[u].disabled = was.auth[u].disabled
          /\ auth[u].email = was.auth[u].email
          /\ IF loc[p].name = Undef
             THEN /\ docs[u].name = was.docs[u].name
                  /\ auth[u].displayName = was.auth[u].displayName
                  /\ CallsTo(loc[p], "auth.updateUser") = {}
             ELSE docs[u].name = loc[p].name /\ auth[u].displayName = loc[p].name
          /\ IF loc[p].role = Undef
             THEN /\ docs[u].role = was.docs[u].role
                  /\ auth[u].role = was.auth[u].role
                  /\ CallsTo(loc[p], "auth.setCustomUserClaims") = {}
             ELSE /\ docs[u].role = NormalizeRole(loc[p].role)
                  /\ auth[u].role = NormalizeRole(loc[p].role)
          /\ CallsTo(loc[p], "doc.set") = {}

\* updateUser(1, {name}) on a disabled user with claim "chef" whose document
\* says ADMIN and inactive: both names are the new one, the rest is as before.
C26_Witness ==
  \E p \in Procs :
    /\ Done(p, "updateUser") /\ loc[p].ok /\ loc[p].uid = 1
    /\ loc[p].name = NameA /\ loc[p].role = Undef
    /\ HasDoc(loc[p].pre.docs, 1)
    /\ loc[p].pre.docs[1].name # NameA
    /\ docs[1].name = NameA /\ auth[1].displayName = NameA
    /\ auth[1].role = chef /\ docs[1].role = ADMIN
    /\ auth[1].disabled /\ docs[1].status = INACTIVE
    /\ docs[1].updatedAt = NOW /\ docs[1].createdAt = T0

(***************************************************************************)
(* auditSync and the page size                                             *)
(***************************************************************************)
\* The number of users the identity store holds.
Population == fillers + Cardinality({u \in UIDs : HasUser(auth, u)})

Orphans == {u \in UIDs : HasDoc(docs, u) /\ ~HasUser(auth, u)}

\* C28 as stated: starting without orphans, after any interleaving of
\* createUser, updateUser, disableUser, enableUser and migrateAuthToFirestore
\* calls, store failures allowed, every uid that has a document has its user,
\* a migration that overlaps a rolled-back createUser included.
C28_NoOrphanDocument ==
  (\A p \in Procs : ~Running(p)) => Orphans = {}

(***************************************************************************)
(* Documents written by the auto-sync branches                             *)
(***************************************************************************)
\* The call of p was a successful updateUser, disableUser or enableUser on a
\* uid that had no document, and wrote one.
AutoSynced(p) ==
  /\ loc[p].op \in {"updateUser", "disableUser", "enableUser"}
  /\ loc[p].pc = "done" /\ loc[p].ok
  /\ ~HasDoc(loc[p].pre.docs, loc[p].uid)
  /\ HasDoc(docs, loc[p].uid)

\* C29 as stated: the document an auto-sync branch creates in a successful
\* updateUser, disableUser or enableUser agrees with the user record right
\* after the call: its name is the displayName, its role is the role claim
\* case-insensitively and its status is "inactive" exactly when disabled is
\* true, so that an audit of the two would list no inconsistency for the uid,
\* for a user with no role claim or no displayName too.
C29_AutoSyncAgrees ==
  \A p \in Procs :
    AutoSynced(p) =>
      LET u == loc[p].uid
      IN  /\ HasUser(auth, u)
          /\ docs[u].name = auth[u].displayName
          /\ CaselessEqual(auth[u].role, docs[u].role)
          /\ (docs[u].status = INACTIVE) <=> auth[u].disabled
          /\ FieldMismatches(u, auth[u], docs[u]) = <<>>

(***************************************************************************)
(* auditSync right after migrateAuthToFirestore                            *)
(***************************************************************************)
\* The audit of p that just ended followed a run of migrateAuthToFirestore
\* that returned with no errors.
AuditAfterMigrate(p) ==
  /\ AuditDone(p)
  /\ prev[p].op = "migrateAuthToFirestore" /\ prev[p].pc = "done"
  /\ prev[p].ok /\ prev[p].value.errors = <<>>

\* C30 as stated: after a run of migrateAuthToFirestore that returns with
\* errors = [], the users within the page and no other writer, the audit that
\* follows reports missingInFirestore empty and no role or status entry for
\* any uid the run migrated, whatever role claim the user had before the run
\* (none, a non-canonical spelling or an unknown value).
C30_AuditCleanAfterMigrate ==
  \A p \in Procs :
    AuditAfterMigrate(p) =>
      /\ loc[p].value.missingInFirestore = <<>>
      /\ \A u \in LackingWithinPage(prev[p].pre, fillers) :
           \A field \in {"role", "status"} :
             EntriesFor(loc[p].value.inconsistencies, u, field) = {}

=============================================================================
